---- MODULE Spec2Model ----
(***************************************************************************)
(* Settings catalog and feature negotiation of                             *)
(* lib/logitech_receiver/settings_templates.py.                            *)
(*                                                                         *)
(* Strings that the code compares or rewrites (setting names, identifiers) *)
(* are sequences of tokens, so that name[0].replace('-', '_') is computed  *)
(* and not assumed: 'fn-swap' is <<"fn", "-", "swap">>.                    *)
(***************************************************************************)
EXTENDS Integers, Sequences, FiniteSets, TLC

VARIABLES
    settings_table,  \* the module-level list _SETTINGS_TABLE
    \* one device, whole calls
    device,          \* the device handle: [features, online, protocol]
    already_known,   \* the device's settings list, handed to check_feature_settings
    last,            \* observation of the last call: arguments, replies, result
    \* two devices, their passes interleaved row by row
    devices,         \* the device handles
    settings,        \* each device's own settings list
    walk,            \* each pass: where it stands and what it has seen
    \* the reader/writers and validator callbacks, one call at a time
    call             \* the last call: [op, arg, result]

vars == <<settings_table, device, already_known, last, devices, settings, walk, call>>

\* The variables of the two interleaved passes, and those of the whole calls.
walkvars == <<devices, settings, walk>>

callvars == <<device, already_known, last>>

\* No reader/writer or callback was called yet.
NoCall == [op |-> "none", arg |-> <<>>, result |-> <<>>]

\* Python's None where a string-valued slot is expected.
None == "None"

\* Python's None (or the empty string) where a name is expected.
NoName == <<>>

(***************************************************************************)
(* Names of the settings: element [0] of each display triple.              *)
(***************************************************************************)
_HAND_DETECTION == <<"hand", "-", "detection">>
_SMOOTH_SCROLL == <<"smooth", "-", "scroll">>
_SIDE_SCROLL == <<"side", "-", "scroll">>
_HI_RES_SCROLL == <<"hi", "-", "res", "-", "scroll">>
_LOW_RES_SCROLL == <<"lowres", "-", "smooth", "-", "scroll">>
_HIRES_INV == <<"hires", "-", "smooth", "-", "invert">>
_HIRES_RES == <<"hires", "-", "smooth", "-", "resolution">>
_FN_SWAP == <<"fn", "-", "swap">>
_DPI == <<"dpi">>
_POINTER_SPEED == <<"pointer", "_", "speed">>
_SMART_SHIFT == <<"smart", "-", "shift">>
_BACKLIGHT == <<"backlight">>
_REPROGRAMMABLE_KEYS == <<"reprogrammable", "-", "keys">>
_DISABLE_KEYS == <<"disable", "-", "keyboard", "-", "keys">>
_PLATFORM == <<"multiplatform">>
_CHANGE_HOST == <<"change", "-", "host">>
_THUMB_SCROLL_MODE == <<"thumb", "-", "scroll", "-", "mode">>
_THUMB_SCROLL_INVERT == <<"thumb", "-", "scroll", "-", "invert">>
_GESTURE2_GESTURES == <<"gesture2", "-", "gestures">>
_GESTURE2_PARAMS == <<"gesture2", "-", "params">>

\* str.replace('-', '_') on a tokenised string.
replace(s) == [i \in 1..Len(s) |-> IF s[i] = "-" THEN "_" ELSE s[i]]

\* One row of the table: (name[0], featureID, featureFn, registerFn, identifier).
_S(name, featureID, featureFn, registerFn, identifier) ==
    [name       |-> name,
     featureID  |-> featureID,
     featureFn  |-> featureFn,
     registerFn |-> registerFn,
     identifier |-> IF identifier # NoName THEN identifier ELSE replace(name)]

_SETTINGS_TABLE == <<
    _S(_HAND_DETECTION, None, None, "_register_hand_detection", NoName),
    _S(_SMOOTH_SCROLL, None, None, "_register_smooth_scroll", NoName),
    _S(_SIDE_SCROLL, None, None, "_register_side_scroll", NoName),
    _S(_HI_RES_SCROLL, "HI_RES_SCROLLING", "_feature_hi_res_scroll", None, NoName),
    _S(_LOW_RES_SCROLL, "LOWRES_WHEEL", "_feature_lowres_smooth_scroll", None, NoName),
    _S(_HIRES_INV, "HIRES_WHEEL", "_feature_hires_smooth_invert", None, NoName),
    _S(_HIRES_RES, "HIRES_WHEEL", "_feature_hires_smooth_resolution", None, NoName),
    _S(_FN_SWAP, "FN_INVERSION", "_feature_fn_swap", "_register_fn_swap", NoName),
    _S(_FN_SWAP, "NEW_FN_INVERSION", "_feature_new_fn_swap", None, <<"new", "_", "fn", "_", "swap">>),
    _S(_FN_SWAP, "K375S_FN_INVERSION", "_feature_k375s_fn_swap", None, <<"k375s", "_", "fn", "_", "swap">>),
    _S(_DPI, "ADJUSTABLE_DPI", "_feature_adjustable_dpi", "_register_dpi", NoName),
    _S(_POINTER_SPEED, "POINTER_SPEED", "_feature_pointer_speed", None, NoName),
    _S(_SMART_SHIFT, "SMART_SHIFT", "_feature_smart_shift", None, NoName),
    _S(_BACKLIGHT, "BACKLIGHT2", "_feature_backlight2", None, NoName),
    _S(_REPROGRAMMABLE_KEYS, "REPROG_CONTROLS_V4", "_feature_reprogrammable_keys", None, NoName),
    _S(_DISABLE_KEYS, "KEYBOARD_DISABLE_KEYS", "_feature_disable_keyboard_keys", None, NoName),
    _S(_PLATFORM, "MULTIPLATFORM", "_feature_multiplatform", None, NoName),
    _S(_PLATFORM, "DUALPLATFORM", "_feature_dualplatform", None, <<"dualplatform">>),
    _S(_CHANGE_HOST, "CHANGE_HOST", "_feature_change_host", None, NoName),
    _S(_THUMB_SCROLL_MODE, "THUMB_WHEEL", "_feature_thumb_mode", None, NoName),
    _S(_THUMB_SCROLL_INVERT, "THUMB_WHEEL", "_feature_thumb_invert", None, NoName),
    _S(_GESTURE2_GESTURES, "GESTURE_2", "_feature_gesture2_gestures", None, NoName),
    _S(_GESTURE2_PARAMS, "GESTURE_2", "_feature_gesture2_params", None, NoName) >>

(***************************************************************************)
(* The setting templates.  Each _feature_* function builds its setting     *)
(* from one display triple; the setting's name is that triple's [0], the   *)
(* attribute check_feature_settings reads as s.name.  The identifier of    *)
(* the table row is not handed to the setting.                             *)
(***************************************************************************)
_feature_name(featureFn) ==
    CASE featureFn = "_feature_fn_swap" -> _FN_SWAP
      [] featureFn = "_feature_new_fn_swap" -> _FN_SWAP
      [] featureFn = "_feature_k375s_fn_swap" -> _FN_SWAP
      [] featureFn = "_feature_backlight2" -> _BACKLIGHT
      [] featureFn = "_feature_hi_res_scroll" -> _HI_RES_SCROLL
      [] featureFn = "_feature_lowres_smooth_scroll" -> _LOW_RES_SCROLL
      [] featureFn = "_feature_hires_smooth_invert" -> _HIRES_INV
      [] featureFn = "_feature_hires_smooth_resolution" -> _HIRES_RES
      [] featureFn = "_feature_smart_shift" -> _SMART_SHIFT
      [] featureFn = "_feature_adjustable_dpi" -> _DPI
      [] featureFn = "_feature_pointer_speed" -> _POINTER_SPEED
      [] featureFn = "_feature_reprogrammable_keys" -> _REPROGRAMMABLE_KEYS
      [] featureFn = "_feature_disable_keyboard_keys" -> _DISABLE_KEYS
      [] featureFn = "_feature_multiplatform" -> _PLATFORM
      [] featureFn = "_feature_dualplatform" -> _PLATFORM
      [] featureFn = "_feature_change_host" -> _CHANGE_HOST
      [] featureFn = "_feature_thumb_mode" -> _THUMB_SCROLL_MODE
      [] featureFn = "_feature_thumb_invert" -> _THUMB_SCROLL_INVERT
      [] featureFn = "_feature_gesture2_gestures" -> _GESTURE2_GESTURES
      [] featureFn = "_feature_gesture2_params" -> _GESTURE2_PARAMS

\* The setting object a template yields for a device; fn tells the objects of
\* different templates apart (their reader/writer and validator differ).
_Setting(featureFn) == [name |-> _feature_name(featureFn), fn |-> featureFn]

\* Python's None where a setting is expected.
NoSetting == [name |-> NoName, fn |-> None]

\* What featureFn()(device) can do: yield the setting, yield None (the
\* callback found nothing usable), or raise (assertion, malformed reply).
Outcomes == {"setting", "none", "raise"}

\* device.features is None
NoFeatures == {None}

(***************************************************************************)
(* check_feature: the probe of one row.  What featureFn()(device) does     *)
(* depends on the device's replies, so the probe has one result for each   *)
(* outcome.  exc is the exception that leaves the function: the test       *)
(* 'featureId not in device.features' lies outside the try and raises      *)
(* TypeError when device.features is None; an exception of the template    *)
(* is caught and logged with the feature.                                  *)
(***************************************************************************)
\* Mutant: no try/except around the template, its exception leaves the probe.
check_feature_uncaught(dev, name, featureId, featureFn) ==
    IF dev.features = NoFeatures
    THEN {[detected |-> NoSetting, outcome |-> None, logged |-> FALSE, exc |-> "TypeError"]}
    ELSE IF featureId \notin dev.features
    THEN {[detected |-> NoSetting, outcome |-> None, logged |-> FALSE, exc |-> None]}
    ELSE {[detected |-> IF o = "setting" THEN _Setting(featureFn) ELSE NoSetting,
           outcome  |-> o,
           logged   |-> FALSE,
           exc      |-> IF o = "raise" THEN "Exception" ELSE None] : o \in Outcomes}

check_feature(dev, name, featureId, featureFn) ==
    IF dev.features = NoFeatures
    THEN {[detected |-> NoSetting, outcome |-> None, logged |-> FALSE, exc |-> "TypeError"]}
    ELSE IF featureId \notin dev.features
    THEN {[detected |-> NoSetting, outcome |-> None, logged |-> FALSE, exc |-> None]}
    ELSE {[detected |-> IF o = "setting" THEN _Setting(featureFn) ELSE NoSetting,
           outcome  |-> o,
           logged   |-> o = "raise",
           exc      |-> None] : o \in Outcomes}

\* Mutant: the names of the list are compared with the row's identifier form.
any_name_identifier(known, name) == \E k \in 1..Len(known) : known[k].name = replace(name)

\* Mutant: the list is not consulted.
any_name_never(known, name) == FALSE

\* any(s.name == name for s in already_known)
any_name(known, name) == \E k \in 1..Len(known) : known[k].name = name

\* Mutant: the new setting is put in front of the list.
prepend(known, setting) == <<setting>> \o known

\* Mutant: the list is assigned, not extended.
assign(known, setting) == <<setting>>

\* already_known.append(setting)
append(known, setting) == Append(known, setting)

\* The running result of a call: the list, what it returns, the exception
\* that leaves it, the templates it invoked with what each did (in order),
\* and the features logged as inconsistent.
Start(known) ==
    [known |-> known, ret |-> None, feature |-> NoSetting, exc |-> None,
     probed |-> <<>>, errors |-> {}]

Note(st, row, r) ==
    [st EXCEPT !.probed = IF r.outcome # None
                          THEN Append(@, [fn |-> row.featureFn, outcome |-> r.outcome])
                          ELSE @,
               !.errors = IF r.logged THEN @ \cup {row.featureID} ELSE @]

\* One iteration of the for loop of check_feature_settings, on row i.
settings_row(table, dev, i, st) ==
    LET row == table[i] IN
    IF row.featureID # None /\ row.featureFn # None
       /\ ~any_name(st.known, row.name)
    THEN {IF r.exc # None THEN [st EXCEPT !.exc = r.exc]
          ELSE [Note(st, row, r) EXCEPT
                   !.known = IF r.detected # NoSetting THEN append(@, r.detected) ELSE @]
          : r \in check_feature(dev, row.name, row.featureID, row.featureFn)}
    ELSE {st}

\* The for loop of check_feature_settings from row i on; an exception that
\* leaves check_feature ends it.
RECURSIVE settings_loop(_, _, _, _)
settings_loop(table, dev, i, st) ==
    IF i > Len(table) THEN {[st EXCEPT !.ret = "True"]}
    ELSE UNION {IF s.exc # None THEN {s} ELSE settings_loop(table, dev, i + 1, s)
                : s \in settings_row(table, dev, i, st)}

\* Mutant: an unknown protocol counts as one below 2.0.
below_2_0_or_unknown(protocol) == protocol < 20

\* device.protocol and device.protocol < 2.0; protocol in tenths, 0 = unknown.
below_2_0(protocol) == protocol # 0 /\ protocol < 20

check_feature_settings(table, dev, already) ==
    IF dev.features = NoFeatures \/ ~dev.online
    THEN {[Start(already) EXCEPT !.ret = "False"]}
    ELSE IF below_2_0(dev.protocol)
    THEN {[Start(already) EXCEPT !.ret = "False"]}
    ELSE settings_loop(table, dev, 1, Start(already))

\* Mutant: the row is found by its identifier.
matches_identifier(row, setting_name) == row.identifier = setting_name

\* name == setting_name
matches(row, setting_name) == row.name = setting_name

\* The for loop of check_feature_setting from row i on.
RECURSIVE setting_loop(_, _, _, _, _)
setting_loop(table, dev, setting_name, i, st) ==
    IF i > Len(table) THEN {st}
    ELSE LET row == table[i] IN
         IF matches(row, setting_name) /\ row.featureID # None /\ row.featureFn # None
         THEN UNION {
                IF r.exc # None THEN {[st EXCEPT !.exc = r.exc]}
                ELSE IF r.detected # NoSetting
                THEN {[Note(st, row, r) EXCEPT !.feature = r.detected]}
                ELSE setting_loop(table, dev, setting_name, i + 1, Note(st, row, r))
                : r \in check_feature(dev, row.name, row.featureID, row.featureFn)}
         ELSE setting_loop(table, dev, setting_name, i + 1, st)

check_feature_setting(table, dev, already, setting_name) ==
    setting_loop(table, dev, setting_name, 1, Start(already))

(***************************************************************************)
(* The devices and calls explored.                                         *)
(***************************************************************************)
\* The features the explored devices draw from: one feature with a single
\* row, one feature with two rows, and the features of the rows that share
\* the names 'fn-swap' and 'multiplatform'.
FeaturePool ==
    {"ADJUSTABLE_DPI", "HIRES_WHEEL", "FN_INVERSION", "NEW_FN_INVERSION",
     "MULTIPLATFORM", "DUALPLATFORM"}

\* A device advertises at most this many features.
MaxFeatures == 2

Rows == 1..Len(_SETTINGS_TABLE)

FeatureSets == {fs \in SUBSET FeaturePool : Cardinality(fs) <= MaxFeatures}

\* Unknown, HID++ 1.0, HID++ 2.0.
Protocols == {0, 10, 20}

\* The rows a caller asks about: those of the pool's features and the first
\* row, which has no feature.
AskedRows == {i \in Rows : i = 1 \/ _SETTINGS_TABLE[i].featureID \in FeaturePool}

\* The names a caller may ask check_feature_setting for: the setting name and
\* the identifier of every asked row.
SettingNames ==
    {_SETTINGS_TABLE[i].name : i \in AskedRows}
        \cup {_SETTINGS_TABLE[i].identifier : i \in AskedRows}

\* What a call leaves to observe, next to the list itself.
Observed(op, setting_name, before, r) ==
    [op |-> op, setting_name |-> setting_name, before |-> before,
     ret |-> r.ret, feature |-> r.feature, exc |-> r.exc,
     probed |-> r.probed, errors |-> r.errors]

Init ==
    /\ device \in [features : FeatureSets \cup {NoFeatures},
                   online : BOOLEAN,
                   protocol : Protocols]
    /\ already_known = <<>>
    /\ settings_table = _SETTINGS_TABLE
    /\ last = Observed("none", NoName, <<>>, Start(<<>>))
    /\ devices = <<>>
    /\ settings = <<>>
    /\ walk = <<>>
    /\ call = NoCall

\* A negotiation pass: check_feature_settings(device, device.settings).
CheckFeatureSettings ==
    \E r \in check_feature_settings(settings_table, device, already_known) :
        /\ already_known' = r.known
        /\ last' = Observed("check_feature_settings", NoName, already_known, r)
        /\ UNCHANGED <<device, settings_table, walkvars, call>>

\* A targeted re-check: check_feature_setting(device, setting_name).
CheckFeatureSetting ==
    \E setting_name \in SettingNames :
    \E r \in check_feature_setting(settings_table, device, already_known, setting_name) :
        /\ already_known' = r.known
        /\ last' = Observed("check_feature_setting", setting_name, already_known, r)
        /\ UNCHANGED <<device, settings_table, walkvars, call>>

Next == CheckFeatureSettings \/ CheckFeatureSetting

Spec == Init /\ [][Next]_vars

(***************************************************************************)
(* Two devices negotiated at once: each pass of check_feature_settings     *)
(* runs in its own thread and the threads interleave between rows.  The    *)
(* passes share the table; each is handed its device's own list.           *)
(***************************************************************************)
Devices == {"d1", "d2"}

\* The features the two devices draw from.
WalkFeatures == {"FN_INVERSION", "NEW_FN_INVERSION"}

WalkDevices == [features : SUBSET WalkFeatures, online : BOOLEAN, protocol : {20}]

\* Mutant: one list object is shared by all devices.
store_shared(lists, d, known) == [e \in DOMAIN lists |-> known]

\* already_known is the list of the device the pass was called for.
store(lists, d, known) == [lists EXCEPT ![d] = known]

\* The running result of device d's pass, its list included.
Running(d) ==
    [known |-> settings[d], ret |-> walk[d].ret, feature |-> NoSetting,
     exc |-> walk[d].exc, probed |-> walk[d].probed, errors |-> walk[d].errors]

Walked(pc, i, st) ==
    [pc |-> pc, i |-> i, ret |-> st.ret, exc |-> st.exc,
     probed |-> st.probed, errors |-> st.errors]

InitWalk ==
    /\ settings_table = _SETTINGS_TABLE
    /\ devices \in [Devices -> WalkDevices]
    /\ settings = [d \in Devices |-> <<>>]
    /\ walk = [d \in Devices |-> Walked("idle", 0, Start(<<>>))]
    /\ device = [features |-> NoFeatures, online |-> FALSE, protocol |-> 0]
    /\ already_known = <<>>
    /\ last = Observed("none", NoName, <<>>, Start(<<>>))
    /\ call = NoCall

\* check_feature_settings is called for d: the tests before the loop.
Enter(d) ==
    /\ walk[d].pc = "idle"
    /\ walk' = [walk EXCEPT ![d] =
          IF devices[d].features = NoFeatures \/ ~devices[d].online
          THEN Walked("done", 0, [Running(d) EXCEPT !.ret = "False"])
          ELSE IF below_2_0(devices[d].protocol)
          THEN Walked("done", 0, [Running(d) EXCEPT !.ret = "False"])
          ELSE Walked("loop", 1, Running(d))]
    /\ UNCHANGED <<settings_table, devices, settings, callvars, call>>

\* One iteration of d's loop.
Row(d) ==
    /\ walk[d].pc = "loop"
    /\ walk[d].i <= Len(settings_table)
    /\ \E s \in settings_row(settings_table, devices[d], walk[d].i, Running(d)) :
          /\ settings' = store(settings, d, s.known)
          /\ walk' = [walk EXCEPT ![d] =
                IF s.exc # None THEN Walked("done", walk[d].i, s)
                ELSE Walked("loop", walk[d].i + 1, s)]
    /\ UNCHANGED <<settings_table, devices, callvars, call>>

\* The loop of d is exhausted: return True.
Leave(d) ==
    /\ walk[d].pc = "loop"
    /\ walk[d].i > Len(settings_table)
    /\ walk' = [walk EXCEPT ![d] =
          Walked("done", walk[d].i, [Running(d) EXCEPT !.ret = "True"])]
    /\ UNCHANGED <<settings_table, devices, settings, callvars, call>>

NextWalk == \E d \in Devices : Enter(d) \/ Row(d) \/ Leave(d)

SpecWalk == InitWalk /\ [][NextWalk]_vars

(***************************************************************************)
(* Reader/writers and validator callbacks of the setting templates.  Raw   *)
(* values are sequences of bytes, as the device sends and receives them.   *)
(***************************************************************************)
Byte == 0..255

\* common.int2bytes(x, count): big-endian, count bytes.
int2bytes(x, count) == [i \in 1..count |-> (x \div (256 ^ (count - i))) % 256]

\* common.bytes2int(b): big-endian.
RECURSIVE bytes2int(_)
bytes2int(b) ==
    IF b = <<>> THEN 0
    ELSE bytes2int(SubSeq(b, 1, Len(b) - 1)) * 256 + b[Len(b)]

_MIN_SMART_SHIFT_VALUE == 0

_MAX_SMART_SHIFT_VALUE == 50

\* Mutant: the maximum is written as it is, without the ratchet value 255.
_SmartShiftRW_write_literal(data_bytes) ==
    LET threshold == bytes2int(data_bytes)
        mode == IF threshold = _MIN_SMART_SHIFT_VALUE THEN 1 ELSE 2
    IN int2bytes(mode, 1) \o (int2bytes(threshold, 1) \o int2bytes(threshold, 1))

\* _SmartShiftRW.write: the bytes handed to the feature's write function.
_SmartShiftRW_write(data_bytes) ==
    LET threshold == bytes2int(data_bytes)
        mode == IF threshold = _MIN_SMART_SHIFT_VALUE THEN 1 ELSE 2
        ratchet == IF threshold = _MAX_SMART_SHIFT_VALUE THEN 255 ELSE threshold
    IN int2bytes(mode, 1) \o (int2bytes(ratchet, 1) \o int2bytes(ratchet, 1))

\* _unpack('!7H', b): seven big-endian 16-bit words.
unpack_7H(b) == [k \in 1..7 |-> bytes2int(SubSeq(b, 2 * k - 1, 2 * k))]

\* step = None
NoStep == -1

\* range(start, stop, step) for a positive step.
range(start, stop, step) ==
    [k \in 1..(IF stop > start THEN (stop - start + step - 1) \div step ELSE 0)
        |-> start + (k - 1) * step]

\* The for loop of _feature_adjustable_dpi_callback from word k on; a failed
\* assertion ends it.
RECURSIVE dpi_loop(_, _, _)
dpi_loop(vals, k, acc) ==
    IF k > Len(vals) \/ acc.exc # None THEN acc
    ELSE LET val == vals[k] IN
         IF val = 0 THEN acc
         ELSE IF val \div 8192 = 7
         THEN IF acc.step = NoStep /\ Len(acc.dpi_list) = 1
              THEN dpi_loop(vals, k + 1, [acc EXCEPT !.step = val % 8192])
              ELSE [acc EXCEPT !.exc = "AssertionError"]
         ELSE dpi_loop(vals, k + 1, [acc EXCEPT !.dpi_list = Append(@, val)])

\* Mutant: the upper end of the range is left out.
expand_open(dpi_list, step) == range(dpi_list[1], dpi_list[2], step)

\* range(dpi_list[0], dpi_list[1] + 1, step)
expand(dpi_list, step) == range(dpi_list[1], dpi_list[2] + 1, step)

\* What a validator callback hands back: the exception that leaves it, or
\* the validator ("None" when the setting is not created) and its choices.
Called(exc, choices) ==
    [exc |-> exc,
     validator |-> IF exc = None /\ choices # <<>> THEN "_ChoicesV" ELSE None,
     choices |-> IF exc = None THEN choices ELSE <<>>]

\* _feature_adjustable_dpi_callback on the reply of getSensorDpiList.
_feature_adjustable_dpi_callback(reply) ==
    IF reply = <<>> THEN Called("AssertionError", <<>>)
    ELSE LET acc == dpi_loop(unpack_7H(SubSeq(reply, 2, 15)), 1,
                             [dpi_list |-> <<>>, step |-> NoStep, exc |-> None])
         IN IF acc.exc # None THEN Called(acc.exc, <<>>)
            ELSE IF acc.step # NoStep /\ acc.step # 0
            THEN IF Len(acc.dpi_list) = 2
                 THEN Called(None, expand(acc.dpi_list, acc.step))
                 ELSE Called("AssertionError", <<>>)
            ELSE Called(None, acc.dpi_list)

\* The 16-bit words the explored DPI lists are made of: the terminator, two
\* literal values, a step of 200 and a step of 0 (top three bits 111).
DpiWords == {0, 800, 3200, 57344 + 200, 57344}

\* A reply of getSensorDpiList: the sensor index, then seven words.
RECURSIVE pack_H(_)
pack_H(words) ==
    IF words = <<>> THEN <<>> ELSE int2bytes(Head(words), 2) \o pack_H(Tail(words))

DpiReplies == {<<>>} \cup {<<0>> \o pack_H(w) : w \in [1..7 -> DpiWords]}

(***************************************************************************)
(* The multiplatform callback.  Text is a sequence of tokens: an OS name   *)
(* is one token, every digit, '.', '-' and ' ' is one token, so that the   *)
(* formatting of the versions is computed.                                 *)
(***************************************************************************)
Digits == <<"0", "1", "2", "3", "4", "5", "6", "7", "8", "9">>

\* str(n) for n >= 0: the decimal digits.
RECURSIVE str(_)
str(n) == IF n < 10 THEN <<Digits[n + 1]>> ELSE str(n \div 10) \o <<Digits[(n % 10) + 1]>>

\* x & y
RECURSIVE BitAnd(_, _)
BitAnd(x, y) ==
    IF x = 0 \/ y = 0 THEN 0
    ELSE (x % 2) * (y % 2) + 2 * BitAnd(x \div 2, y \div 2)

OSS == <<
    [os_name |-> <<"Linux">>, os_bit |-> 1024],
    [os_name |-> <<"MacOS">>, os_bit |-> 8192],
    [os_name |-> <<"Windows">>, os_bit |-> 256],
    [os_name |-> <<"iOS">>, os_bit |-> 16384],
    [os_name |-> <<"Android">>, os_bit |-> 4096],
    [os_name |-> <<"WebOS">>, os_bit |-> 32768],
    [os_name |-> <<"Chrome">>, os_bit |-> 2048],
    [os_name |-> <<"WinEmb">>, os_bit |-> 512],
    [os_name |-> <<"Tizen">>, os_bit |-> 1] >>

_str_os_version(version) ==
    IF version = 0 THEN <<>>
    ELSE IF version % 256 # 0
    THEN str(version \div 256) \o <<".">> \o str(version % 256)
    ELSE str(version \div 256)

\* Mutant: the range is written only when both versions are given.
_str_os_versions_both(low, high) ==
    IF low = 0 \/ high = 0 THEN <<>>
    ELSE <<" ">> \o _str_os_version(low) \o <<"-">> \o _str_os_version(high)

_str_os_versions(low, high) ==
    IF low = 0 /\ high = 0 THEN <<>>
    ELSE <<" ">> \o _str_os_version(low) \o <<"-">> \o _str_os_version(high)

\* A _NamedInts under construction: its entries [value, name] in the order
\* they were assigned.  'x in choices' for an integer asks for an entry with
\* that value, for a string for an entry with that name.
NamedInts_contains_value(choices, value) ==
    \E k \in 1..Len(choices) : choices[k].value = value

NamedInts_contains_name(choices, name) ==
    \E k \in 1..Len(choices) : choices[k].name = name

\* Mutant: a choice is passed over only when the same pair is present.
free_pair(choices, platform, os) ==
    \A k \in 1..Len(choices) : choices[k] # [value |-> platform, name |-> os]

\* platform not in choices and os not in choices
free(choices, platform, os) ==
    /\ ~NamedInts_contains_value(choices, platform)
    /\ ~NamedInts_contains_name(choices, os)

\* _unpack('!BBHHH', descriptor[:8]) without the ignored byte.
unpack_descriptor(descriptor) ==
    [platform |-> descriptor[1],
     os_flags |-> bytes2int(SubSeq(descriptor, 3, 4)),
     low      |-> bytes2int(SubSeq(descriptor, 5, 6)),
     high     |-> bytes2int(SubSeq(descriptor, 7, 8))]

\* The two nested for loops over OSS and the descriptors, from entry o and
\* descriptor d on.
RECURSIVE choices_loop(_, _, _, _)
choices_loop(descriptors, o, d, choices) ==
    IF o > Len(OSS) THEN choices
    ELSE IF d > Len(descriptors) THEN choices_loop(descriptors, o + 1, 1, choices)
    ELSE LET desc == descriptors[d]
             os == OSS[o].os_name \o _str_os_versions(desc.low, desc.high)
         IN choices_loop(descriptors, o, d + 1,
                IF BitAnd(OSS[o].os_bit, desc.os_flags) # 0 /\ free(choices, desc.platform, os)
                THEN Append(choices, [value |-> desc.platform, name |-> os])
                ELSE choices)

\* _feature_multiplatform_callback on the reply to the count request and the
\* replies to the descriptor requests, by index.  "list" is the empty list
\* returned for a device whose platform cannot be set.
_feature_multiplatform_callback(infos, replies) ==
    IF infos = <<>> THEN [exc |-> "AssertionError", validator |-> None, choices |-> <<>>]
    ELSE LET flags == infos[1]
             num_descriptors == infos[3]
         IN IF BitAnd(flags, 2) = 0
            THEN [exc |-> None, validator |-> "list", choices |-> <<>>]
            ELSE LET descriptors == [index \in 1..num_descriptors
                                        |-> unpack_descriptor(replies[index])]
                 IN Called(None, choices_loop(descriptors, 1, 1, <<>>))

\* A device answers with at most this many platform descriptors.
MaxDescriptors == 2

\* The descriptors explored: two platforms; bitmaps matching none, one or
\* two entries of OSS; no versions, a low version, a low and a high one.
DescriptorReplies ==
    {<<platform, 0>> \o int2bytes(os_flags, 2) \o int2bytes(v[1], 2) \o int2bytes(v[2], 2)
        : platform \in {0, 1},
          os_flags \in {0, 1024, 8192, 256, 1024 + 8192},
          v \in {<<0, 0>>, <<2560, 0>>, <<2560, 2575>>}}

\* The versions _str_os_versions is explored on: zero, major only, minor
\* only, both, and the largest.
Versions == {0, 1, 256, 2560, 2575, 65535}

\* Mutant: the raw threshold is presented as it is, without the cap.
_SmartShiftRW_read_uncapped(value) ==
    IF bytes2int(SubSeq(value, 1, 1)) = 1
    THEN int2bytes(_MIN_SMART_SHIFT_VALUE, 1)
    ELSE int2bytes(bytes2int(SubSeq(value, 2, 2)), 1)

\* _SmartShiftRW.read: the byte handed to the validator for the bytes the
\* feature's read function returned.
_SmartShiftRW_read(value) ==
    IF bytes2int(SubSeq(value, 1, 1)) = 1
    THEN int2bytes(_MIN_SMART_SHIFT_VALUE, 1)
    ELSE LET raw == bytes2int(SubSeq(value, 2, 2))
             threshold == IF raw < _MAX_SMART_SHIFT_VALUE THEN raw
                          ELSE _MAX_SMART_SHIFT_VALUE
         IN int2bytes(threshold, 1)

(***************************************************************************)
(* The disable-keys and gestures callbacks.                                *)
(***************************************************************************)
\* A key that _special_keys.DISABLE does not name.
NoKey == [value |-> -1, name |-> None]

\* _special_keys.DISABLE[k]: the named key of value k, None without one.
DISABLE(k) ==
    CASE k = 1 -> [value |-> 1, name |-> "Caps Lock"]
      [] k = 2 -> [value |-> 2, name |-> "Num Lock"]
      [] k = 4 -> [value |-> 4, name |-> "Scroll Lock"]
      [] k = 8 -> [value |-> 8, name |-> "Insert"]
      [] k = 16 -> [value |-> 16, name |-> "Win"]
      [] OTHER -> NoKey

\* Mutant: every key is offered, whatever the mask.
masked_all(mask, i) == TRUE

\* mask & (1 << i), for i in range(8)
masked(mask, i) == BitAnd(mask, 2 ^ i) # 0

\* The list comprehension of the disable-keys callback from bit i on.
RECURSIVE disable_options(_, _)
disable_options(mask, i) ==
    IF i >= 8 THEN <<>>
    ELSE (IF masked(mask, i) THEN <<DISABLE(2 ^ i)>> ELSE <<>>)
            \o disable_options(mask, i + 1)

\* What a bit-field callback hands back: the validator ("None" when the
\* setting is not created) and its options.
Options(validator, options) ==
    [exc |-> None,
     validator |-> IF options # <<>> THEN validator ELSE None,
     options |-> options]

\* _feature_disable_keyboard_keys_callback on the reply of the feature.
_feature_disable_keyboard_keys_callback(reply) ==
    Options("_BitFieldV", disable_options(reply[1], 0))

\* g.can_be_enabled or g.default_enabled
offered(g) == g.can_be_enabled \/ g.default_enabled

\* The list comprehension of the gestures callback from gesture k on.
RECURSIVE gesture_options(_, _)
gesture_options(gestures, k) ==
    IF k > Len(gestures) THEN <<>>
    ELSE (IF offered(gestures[k]) THEN <<gestures[k]>> ELSE <<>>)
            \o gesture_options(gestures, k + 1)

\* _feature_gesture2_gestures_callback on the gestures the device reports.
_feature_gesture2_gestures_callback(gestures) ==
    Options("_BitFieldOMV", gesture_options(gestures, 1))

\* A device reports at most this many gestures.
MaxGestures == 3

\* The gestures explored: gesture k of a list has id k and any flags.
GestureLists ==
    UNION {{[k \in 1..n |-> [id |-> k, can_be_enabled |-> f[k][1], default_enabled |-> f[k][2]]]
              : f \in [1..n -> BOOLEAN \X BOOLEAN]} : n \in 0..MaxGestures}

(***************************************************************************)
(* The change-host callback.                                               *)
(***************************************************************************)
\* s.partition('.')[0]: the text before the first '.'.
RECURSIVE partition_0(_)
partition_0(s) ==
    IF s = <<>> \/ Head(s) = "." THEN <<>> ELSE <<Head(s)>> \o partition_0(Tail(s))

\* What _hidpp20.get_host_names gives: None, or a table host -> (flag, name).
NoHostNames == [none |-> TRUE, names |-> <<>>]

\* hostNames if hostNames is not None else {}
or_empty(hostNames) == IF hostNames.none THEN <<>> ELSE hostNames.names

\* Mutant: the name of the machine is taken for the current host whatever
\* name is stored for it.
unnamed_always(hostNames, currentHost) == TRUE

\* currentHost not in hostNames or hostNames[currentHost][1] == ''
unnamed(hostNames, currentHost) ==
    \/ currentHost \notin DOMAIN hostNames
    \/ hostNames[currentHost][2] = <<>>

\* hostNames[currentHost] = (True, name)
put(hostNames, currentHost, name) ==
    [host \in DOMAIN hostNames \cup {currentHost} |->
        IF host = currentHost THEN <<TRUE, name>> ELSE hostNames[host]]

\* hostNames.get(host, (False, ''))
get(hostNames, host) ==
    IF host \in DOMAIN hostNames THEN hostNames[host] ELSE <<FALSE, <<>>>>

\* The choice of one host: str(host + 1) + ':' + hostName if hostName else
\* str(host + 1).
host_choice(hostNames, host) ==
    LET hostName == get(hostNames, host)[2]
    IN [value |-> host,
        name  |-> IF hostName # <<>> THEN str(host + 1) \o <<":">> \o hostName
                  ELSE str(host + 1)]

\* _feature_change_host_callback on the reply of the feature, what
\* get_host_names gives and the name socket.gethostname() gives.
_feature_change_host_callback(infos, host_names, hostname) ==
    IF infos = <<>> THEN Called("AssertionError", <<>>)
    ELSE LET numHosts == infos[1]
             currentHost == infos[2]
             stored == or_empty(host_names)
             hostNames == IF unnamed(stored, currentHost)
                          THEN put(stored, currentHost, partition_0(hostname))
                          ELSE stored
         IN Called(None, [k \in 1..numHosts |-> host_choice(hostNames, k - 1)])

\* A device has at most this many hosts.
MaxHosts == 3

\* The names a host may have been stored with: the empty one and two others.
StoredNames == {<<>>, <<"alpha">>, <<"beta", ".", "lan">>}

\* The tables get_host_names may give: any hosts, each with a stored name.
HostNameTables ==
    {NoHostNames} \cup
    {[none |-> FALSE, names |-> t] :
        t \in UNION {[hosts -> {FALSE} \X StoredNames] : hosts \in SUBSET (0..(MaxHosts - 1))}}

\* What socket.gethostname() may give: a short name and a qualified one.
HostNames == {<<"pc">>, <<"pc", ".", "example", ".", "org">>}

InitCallbacks ==
    /\ call = NoCall
    /\ settings_table = _SETTINGS_TABLE
    /\ device = [features |-> NoFeatures, online |-> FALSE, protocol |-> 0]
    /\ already_known = <<>>
    /\ last = Observed("none", NoName, <<>>, Start(<<>>))
    /\ devices = <<>>
    /\ settings = <<>>
    /\ walk = <<>>

\* The calls are pure: a behaviour holds one call and its result.
\* The smart-shift setting is written: the validator hands one byte.
SmartShiftWrite ==
    /\ call = NoCall
    /\ \E data_bytes \in {int2bytes(t, 1) : t \in Byte} :
        /\ call' = [op |-> "_SmartShiftRW.write", arg |-> data_bytes,
                    result |-> _SmartShiftRW_write(data_bytes)]
        /\ UNCHANGED <<settings_table, callvars, walkvars>>

\* The DPI setting is set up for a device: its callback reads the DPI list.
AdjustableDpiCallback ==
    /\ call = NoCall
    /\ \E reply \in DpiReplies :
        /\ call' = [op |-> "_feature_adjustable_dpi_callback", arg |-> reply,
                    result |-> _feature_adjustable_dpi_callback(reply)]
        /\ UNCHANGED <<settings_table, callvars, walkvars>>

\* The smart-shift setting is read: the device returns (mode, threshold).
SmartShiftRead ==
    /\ call = NoCall
    /\ \E value \in Byte \X Byte :
        /\ call' = [op |-> "_SmartShiftRW.read", arg |-> value,
                    result |-> _SmartShiftRW_read(value)]
        /\ UNCHANGED <<settings_table, callvars, walkvars>>

\* The multiplatform setting is set up: its callback reads the count, then
\* the descriptors.
MultiplatformCallback ==
    /\ call = NoCall
    /\ \E flags \in {0, 2, 3}, n \in 0..MaxDescriptors :
       \E replies \in [1..n -> DescriptorReplies] :
        /\ call' = [op |-> "_feature_multiplatform_callback",
                    arg |-> <<<<flags, 0, n>>>> \o replies,
                    result |-> _feature_multiplatform_callback(<<flags, 0, n>>, replies)]
        /\ UNCHANGED <<settings_table, callvars, walkvars>>

\* One descriptor's versions are formatted.
StrOsVersions ==
    /\ call = NoCall
    /\ \E low \in Versions, high \in Versions :
        /\ call' = [op |-> "_str_os_versions", arg |-> <<low, high>>,
                    result |-> _str_os_versions(low, high)]
        /\ UNCHANGED <<settings_table, callvars, walkvars>>

\* The disable-keys setting is set up: its callback reads the mask.
DisableKeysCallback ==
    /\ call = NoCall
    /\ \E mask \in Byte :
        /\ call' = [op |-> "_feature_disable_keyboard_keys_callback", arg |-> <<mask>>,
                    result |-> _feature_disable_keyboard_keys_callback(<<mask>>)]
        /\ UNCHANGED <<settings_table, callvars, walkvars>>

\* The gestures setting is set up: its callback reads the gestures.
GesturesCallback ==
    /\ call = NoCall
    /\ \E gestures \in GestureLists :
        /\ call' = [op |-> "_feature_gesture2_gestures_callback", arg |-> gestures,
                    result |-> _feature_gesture2_gestures_callback(gestures)]
        /\ UNCHANGED <<settings_table, callvars, walkvars>>

\* The change-host setting is set up: its callback reads the hosts and names.
ChangeHostCallback ==
    /\ call = NoCall
    /\ \E numHosts \in 0..MaxHosts, currentHost \in 0..MaxHosts,
          host_names \in HostNameTables, hostname \in HostNames :
        /\ call' = [op |-> "_feature_change_host_callback",
                    arg |-> <<<<numHosts, currentHost>>, host_names, hostname>>,
                    result |-> _feature_change_host_callback(
                                  <<numHosts, currentHost>>, host_names, hostname)]
        /\ UNCHANGED <<settings_table, callvars, walkvars>>

NextCallbacks ==
    \/ SmartShiftWrite
    \/ AdjustableDpiCallback
    \/ SmartShiftRead
    \/ MultiplatformCallback
    \/ StrOsVersions
    \/ DisableKeysCallback
    \/ GesturesCallback
    \/ ChangeHostCallback

SpecCallbacks == InitCallbacks /\ [][NextCallbacks]_vars

(***************************************************************************)
(* Properties of negotiation.                                              *)
(***************************************************************************)
IsPass == last.op = "check_feature_settings"

IsOne == last.op = "check_feature_setting"

\* The table row of a template, and of the setting it yields.
RowOf(featureFn) == CHOOSE i \in Rows : _SETTINGS_TABLE[i].featureFn = featureFn

\* The stable key of a setting of the list: the identifier of its row.
Key(setting) == _SETTINGS_TABLE[RowOf(setting.fn)].identifier

\* The rows with a feature-based template.
FeatureRows == {i \in Rows : _SETTINGS_TABLE[i].featureID # None
                             /\ _SETTINGS_TABLE[i].featureFn # None}

\* What the last call added at the end of the list.
Appended == SubSeq(already_known, Len(last.before) + 1, Len(already_known))

\* The templates the last call invoked.
ProbedFns == {last.probed[p].fn : p \in 1..Len(last.probed)}

Setting_hires_inv == _Setting("_feature_hires_smooth_invert")
Setting_hires_res == _Setting("_feature_hires_smooth_resolution")
Setting_new_fn_swap == _Setting("_feature_new_fn_swap")
Setting_dpi == _Setting("_feature_adjustable_dpi")

\* C1: what one pass of check_feature_settings appends comes only from rows
\* whose feature the device advertises, and stands in the order of the rows
\* in the table.
C1_AppendedAdvertisedInTableOrder ==
    IsPass =>
        /\ \A k \in 1..Len(Appended) :
              _SETTINGS_TABLE[RowOf(Appended[k].fn)].featureID \in device.features
        /\ \A j, k \in 1..Len(Appended) :
              j < k => RowOf(Appended[j].fn) < RowOf(Appended[k].fn)

\* C1 witness: the device advertises HIRES_WHEEL and ADJUSTABLE_DPI but not
\* FN_INVERSION, whose row lies between theirs; the pass appended the three
\* settings of the advertised rows.
C1_Witness ==
    /\ IsPass
    /\ device.features = {"HIRES_WHEEL", "ADJUSTABLE_DPI"}
    /\ last.before = <<>>
    /\ already_known = <<Setting_hires_inv, Setting_hires_res, Setting_dpi>>

\* C2: a template that raises does not make the pass raise, yields no
\* setting and is logged with its feature; every template that yields a
\* setting has it appended, and every row the pass had to probe (feature
\* advertised, no setting of another template with its name in the list) was
\* probed, before and after the raising one.
C2_RaisingRowIsolated ==
    IsPass =>
        /\ last.exc = None
        /\ \A p \in 1..Len(last.probed) :
              LET e == last.probed[p] IN
              /\ e.outcome = "raise" =>
                    /\ \A k \in 1..Len(Appended) : Appended[k].fn # e.fn
                    /\ _SETTINGS_TABLE[RowOf(e.fn)].featureID \in last.errors
              /\ e.outcome = "setting" =>
                    \E k \in 1..Len(Appended) : Appended[k] = _Setting(e.fn)
        /\ last.ret = "True" =>
              \A i \in FeatureRows :
                 LET row == _SETTINGS_TABLE[i] IN
                 ( /\ row.featureID \in device.features
                   /\ \A k \in 1..Len(already_known) :
                         already_known[k].name = row.name => already_known[k].fn = row.featureFn
                   /\ \A k \in 1..Len(last.before) : last.before[k].fn # row.featureFn )
                 => row.featureFn \in ProbedFns

\* C2 witness: a pass in which a template raised while a row before it and a
\* row after it had their settings appended.
C2_Witness ==
    /\ IsPass
    /\ last.ret = "True"
    /\ \E p \in 1..Len(last.probed) :
          /\ last.probed[p].outcome = "raise"
          /\ \E j, k \in 1..Len(Appended) :
                /\ RowOf(Appended[j].fn) < RowOf(last.probed[p].fn)
                /\ RowOf(last.probed[p].fn) < RowOf(Appended[k].fn)

\* C3: the list never holds two settings with the same stable key.
C3_NoDuplicateKeys ==
    \A j, k \in 1..Len(already_known) :
        j # k => Key(already_known[j]) # Key(already_known[k])

\* C3 witness: a pass was run again on a device whose list already held
\* settings; it probed nothing and left the list as it was.
C3_Witness ==
    /\ IsPass
    /\ last.ret = "True"
    /\ Len(last.before) >= 2
    /\ last.probed = <<>>
    /\ already_known = last.before

\* C4 as stated: in a pass that queries the device, every row whose feature
\* is advertised and whose stable key is not in the list has its template
\* invoked.
C4_SkippedOnlyByOwnKey ==
    (IsPass /\ last.ret = "True") =>
        \A i \in FeatureRows :
           LET row == _SETTINGS_TABLE[i] IN
           ( /\ row.featureID \in device.features
             /\ \A k \in 1..Len(last.before) : Key(last.before[k]) # row.identifier )
           => row.featureFn \in ProbedFns

\* C4 as amended: a row's template is invoked exactly when its feature is
\* advertised and no setting with the row's name is in the list when the row
\* is reached: none before the pass, and none yielded earlier in the pass.
C4_SkippedByName ==
    (IsPass /\ last.ret = "True") =>
        \A i \in FeatureRows :
           LET row == _SETTINGS_TABLE[i] IN
           row.featureFn \in ProbedFns <=>
              /\ row.featureID \in device.features
              /\ \A k \in 1..Len(last.before) : last.before[k].name # row.name
              /\ \A p \in 1..Len(last.probed) :
                    ( /\ last.probed[p].outcome = "setting"
                      /\ RowOf(last.probed[p].fn) < i )
                    => _feature_name(last.probed[p].fn) # row.name

\* C4 witness: the device advertises FN_INVERSION and NEW_FN_INVERSION, the
\* template of fn_swap yielded its setting and that of new_fn_swap was not
\* invoked.
C4_Witness ==
    /\ IsPass
    /\ last.ret = "True"
    /\ {"FN_INVERSION", "NEW_FN_INVERSION"} \subseteq device.features
    /\ \E p \in 1..Len(last.probed) :
          last.probed[p] = [fn |-> "_feature_fn_swap", outcome |-> "setting"]
    /\ "_feature_new_fn_swap" \notin ProbedFns
    /\ \A k \in 1..Len(last.before) : Key(last.before[k]) # <<"new", "_", "fn", "_", "swap">>

\* C5 as stated: a pass queries the device exactly when it is online, its
\* features are available and its protocol is known to be at least 2.0;
\* otherwise it returns False, invokes no template and leaves the list.
C5_QueriedOnlyFrom_2_0 ==
    IsPass =>
        IF device.online /\ device.features # NoFeatures /\ device.protocol >= 20
        THEN last.ret = "True"
        ELSE /\ last.ret = "False"
             /\ last.probed = <<>>
             /\ already_known = last.before

\* C5 as amended: a pass queries the device exactly when it is online, its
\* features are available and its protocol is unknown or at least 2.0;
\* otherwise it returns False, invokes no template and leaves the list.
C5_QueriedUnlessKnownBelow_2_0 ==
    IsPass =>
        IF /\ device.online
           /\ device.features # NoFeatures
           /\ (device.protocol = 0 \/ device.protocol >= 20)
        THEN last.ret = "True"
        ELSE /\ last.ret = "False"
             /\ last.probed = <<>>
             /\ already_known = last.before

\* C5 witness: a device of unknown protocol was queried and a setting added.
C5_Witness ==
    /\ IsPass
    /\ device.protocol = 0
    /\ last.ret = "True"
    /\ Len(last.probed) >= 1
    /\ Len(already_known) > Len(last.before)

\* The rows check_feature_setting probes for a name: those carrying the name
\* whose feature the device advertises.
NamedRows(setting_name) ==
    {i \in FeatureRows : /\ _SETTINGS_TABLE[i].name = setting_name
                         /\ _SETTINGS_TABLE[i].featureID \in device.features}

\* C6 as stated: asked for the stable key of a row whose feature is
\* advertised, check_feature_setting invokes that row's template and returns
\* its setting if it yields one, None otherwise.
C6_OneByStableKey ==
    IsOne =>
        \A i \in FeatureRows :
           LET row == _SETTINGS_TABLE[i] IN
           (row.identifier = last.setting_name /\ row.featureID \in device.features) =>
              \E p \in 1..Len(last.probed) :
                 /\ last.probed[p].fn = row.featureFn
                 /\ last.feature = IF last.probed[p].outcome = "setting"
                                   THEN _Setting(row.featureFn) ELSE NoSetting

\* C6 as amended: check_feature_setting finds rows by the setting's name.
\* With features available it invokes, in table order, the templates of the
\* rows with that name whose feature is advertised, stops at the first that
\* yields a setting and returns it, and returns None when none does (so for
\* every name no row carries, such as the identifiers new_fn_swap,
\* k375s_fn_swap and dualplatform).  With device.features None and a row of
\* that name, the feature test raises TypeError.  The list stays as it was.
C6_OneBySettingName ==
    IsOne =>
        LET named == {i \in FeatureRows : _SETTINGS_TABLE[i].name = last.setting_name}
            rows  == NamedRows(last.setting_name)
            n     == Len(last.probed)
        IN
        /\ already_known = last.before
        /\ IF device.features = NoFeatures /\ named # {}
           THEN last.exc = "TypeError" /\ n = 0 /\ last.feature = NoSetting
           ELSE /\ last.exc = None
                /\ \A p \in 1..n :
                      /\ RowOf(last.probed[p].fn) \in rows
                      /\ Cardinality({i \in rows : i < RowOf(last.probed[p].fn)}) = p - 1
                      /\ p < n => last.probed[p].outcome # "setting"
                /\ IF n > 0 /\ last.probed[n].outcome = "setting"
                   THEN last.feature = _Setting(last.probed[n].fn)
                   ELSE last.feature = NoSetting /\ n = Cardinality(rows)

\* C6 witness: asked for 'fn-swap' on a device advertising FN_INVERSION and
\* NEW_FN_INVERSION, the template of fn_swap yielded nothing and the setting
\* of new_fn_swap was returned.
C6_Witness ==
    /\ IsOne
    /\ last.setting_name = _FN_SWAP
    /\ last.probed = << [fn |-> "_feature_fn_swap", outcome |-> "none"],
                        [fn |-> "_feature_new_fn_swap", outcome |-> "setting"] >>
    /\ last.feature = Setting_new_fn_swap

\* C7: a call only adds at the end of the list: the settings held before it
\* stay, in their places; check_feature_setting leaves the list as it was;
\* the table is never changed.
C7_AddOnly ==
    /\ settings_table = _SETTINGS_TABLE
    /\ Len(already_known) >= Len(last.before)
    /\ SubSeq(already_known, 1, Len(last.before)) = last.before
    /\ IsOne => already_known = last.before

\* C7 witness: a pass on a list that already held a setting added another
\* after it.
C7_Witness ==
    /\ IsPass
    /\ Len(last.before) >= 1
    /\ Len(already_known) > Len(last.before)
    /\ already_known[1] = last.before[1]

\* C8: with two passes interleaved row by row, the list of a device that is
\* done is the list the same pass yields when run alone on that device with
\* the same replies; at every moment a device's list holds exactly the
\* settings its own pass was given by its own templates, in that order; the
\* table is unchanged.
C8_AsIfAlone ==
    /\ settings_table = _SETTINGS_TABLE
    /\ \A d \in Devices :
          /\ settings[d] =
                LET yielded == {p \in 1..Len(walk[d].probed) :
                                    walk[d].probed[p].outcome = "setting"}
                    nth(k) == CHOOSE p \in yielded :
                                    Cardinality({q \in yielded : q < p}) = k - 1
                IN [k \in 1..Cardinality(yielded) |-> _Setting(walk[d].probed[nth(k)].fn)]
          /\ walk[d].pc = "done" =>
                \E r \in check_feature_settings(_SETTINGS_TABLE, devices[d], <<>>) :
                    /\ r.probed = walk[d].probed
                    /\ r.known = settings[d]
                    /\ r.ret = walk[d].ret
                    /\ r.exc = walk[d].exc

\* C8 witness: both passes are under way at once, each has added settings
\* to its device's list, and the two lists differ.
C8_Witness ==
    /\ walk["d1"].pc = "loop"
    /\ walk["d2"].pc = "loop"
    /\ walk["d1"].i # walk["d2"].i
    /\ Len(settings["d1"]) >= 1
    /\ Len(settings["d2"]) >= 1
    /\ settings["d1"][1] # settings["d2"][1]

(***************************************************************************)
(* Properties of the reader/writers and callbacks.                         *)
(***************************************************************************)
\* C9: for every threshold t in 0..50 the smart-shift writer sends three
\* bytes (mode, x, x): (1, 0, 0) for t = 0, (2, 255, 255) for t = 50 and
\* (2, t, t) for every other t.
C9_SmartShiftWriteEncoding ==
    (call.op = "_SmartShiftRW.write" /\ call.arg[1] \in 0..50) =>
        LET t == call.arg[1] IN
        /\ Len(call.result) = 3
        /\ call.result[2] = call.result[3]
        /\ call.result[1] = 1 <=> t = 0
        /\ call.result = IF t = 0 THEN <<1, 0, 0>>
                         ELSE IF t = 50 THEN <<2, 255, 255>>
                         ELSE <<2, t, t>>

\* C9 witness: the threshold 50 was written as (2, 255, 255).
C9_Witness ==
    /\ call.op = "_SmartShiftRW.write"
    /\ call.arg = <<50>>
    /\ call.result = <<2, 255, 255>>

\* The words of the DPI list the last call of the DPI callback was given.
DpiVals == unpack_7H(SubSeq(call.arg, 2, 15))

\* The words before the first zero of the list.
BeforeZero(vals) ==
    LET zeros == {k \in 1..Len(vals) : vals[k] = 0}
        n == IF zeros = {} THEN Len(vals)
             ELSE (CHOOSE k \in zeros : \A j \in zeros : k <= j) - 1
    IN SubSeq(vals, 1, n)

\* C10: the list 800, step 200, 3200, 0 resolves to the thirteen choices
\* 800, 1000, ..., 3200; a list with no step word before its first zero
\* resolves to the words before that zero, in order (no setting when there
\* are none).
C10_DpiListResolution ==
    (call.op = "_feature_adjustable_dpi_callback" /\ call.arg # <<>>) =>
        /\ SubSeq(DpiVals, 1, 4) = <<800, 57544, 3200, 0>> =>
              /\ call.result.exc = None
              /\ call.result.validator = "_ChoicesV"
              /\ call.result.choices = [k \in 1..13 |-> 800 + 200 * (k - 1)]
        /\ (\A k \in 1..Len(BeforeZero(DpiVals)) : BeforeZero(DpiVals)[k] \div 8192 # 7) =>
              /\ call.result.exc = None
              /\ call.result.choices = BeforeZero(DpiVals)
              /\ call.result.validator =
                    IF BeforeZero(DpiVals) = <<>> THEN None ELSE "_ChoicesV"

\* C10 witness: the list 800, step 200, 3200, 0 with further words after the
\* zero gave the thirteen choices ending in 3200.
C10_Witness ==
    /\ call.op = "_feature_adjustable_dpi_callback"
    /\ call.arg # <<>>
    /\ DpiVals = <<800, 57544, 3200, 0, 800, 57344, 3200>>
    /\ Len(call.result.choices) = 13
    /\ call.result.choices[13] = 3200

\* C10 witness of the list without a step: two literal words, then zero.
C10_WitnessLiteral ==
    /\ call.op = "_feature_adjustable_dpi_callback"
    /\ call.arg # <<>>
    /\ SubSeq(DpiVals, 1, 3) = <<3200, 800, 0>>
    /\ call.result.choices = <<3200, 800>>

\* The call of the multiplatform callback last made: whether the header says
\* the platform can be set, and the descriptors the device gave.
IsMultiplatform == call.op = "_feature_multiplatform_callback"

Settable == (call.arg[1][1] \div 2) % 2 = 1

Descriptors == [k \in 1..call.arg[1][3] |-> unpack_descriptor(call.arg[k + 1])]

\* The entries of OSS whose bit is set in a descriptor's bitmap.
Matched(desc) == {o \in 1..Len(OSS) : (desc.os_flags \div OSS[o].os_bit) % 2 = 1}

\* The choice of entry o of OSS for a descriptor.
Choice(o, desc) ==
    [value |-> desc.platform,
     name  |-> OSS[o].os_name \o _str_os_versions(desc.low, desc.high)]

\* The entry of OSS a choice is named after.
EntryOf(choice) == CHOOSE o \in 1..Len(OSS) : OSS[o].os_name[1] = choice.name[1]

Least(S) == CHOOSE o \in S : \A q \in S : o <= q

\* C11 as stated: a single descriptor whose bitmap matches two entries of
\* OSS gives exactly the two choices of these entries, in the order of OSS;
\* a choice is passed over only when the same (platform, text) pair is
\* already there, so the choice of every matched entry of every descriptor is
\* among the choices.
C11_TwoChoicesPerDescriptor ==
    (IsMultiplatform /\ Settable) =>
        LET ch == call.result.choices IN
        /\ \A d \in 1..Len(Descriptors) :
              (Len(Descriptors) = 1 /\ Cardinality(Matched(Descriptors[d])) = 2) =>
                 /\ Len(ch) = 2
                 /\ EntryOf(ch[1]) < EntryOf(ch[2])
        /\ \A d \in 1..Len(Descriptors) : \A o \in Matched(Descriptors[d]) :
              \E k \in 1..Len(ch) : ch[k] = Choice(o, Descriptors[d])

\* C11 as amended: the choices hold each platform once and each text once.
\* Every choice is that of an entry of OSS matched by a descriptor, and the
\* choices were assigned in the order of OSS; a matched entry of a descriptor
\* is passed over when its platform or its text is already among the
\* choices.  A single descriptor matching two entries gives one choice, that
\* of the first matched entry; two descriptors of different platforms that
\* match one entry each, not the same, give two choices.  Without choices
\* there is no validator; a device whose platform cannot be set gives the
\* empty list.
C11_OneChoicePerPlatform ==
    IsMultiplatform =>
        LET ch == call.result.choices
            ds == Descriptors
        IN
        /\ call.result.exc = None
        /\ IF ~Settable THEN call.result.validator = "list" /\ ch = <<>>
           ELSE
           /\ call.result.validator = IF ch = <<>> THEN None ELSE "_ChoicesV"
           /\ \A j, k \in 1..Len(ch) :
                 j # k => ch[j].value # ch[k].value /\ ch[j].name # ch[k].name
           /\ \A k \in 1..Len(ch) :
                 \E d \in 1..Len(ds) : \E o \in Matched(ds[d]) : ch[k] = Choice(o, ds[d])
           /\ \A j, k \in 1..Len(ch) : j < k => EntryOf(ch[j]) <= EntryOf(ch[k])
           /\ \A d \in 1..Len(ds) : \A o \in Matched(ds[d]) :
                 \E k \in 1..Len(ch) :
                    \/ ch[k].value = ds[d].platform
                    \/ ch[k].name = Choice(o, ds[d]).name
           /\ (Len(ds) = 1 /\ Matched(ds[1]) # {}) =>
                 ch = <<Choice(Least(Matched(ds[1])), ds[1])>>
           /\ ( /\ Len(ds) = 2
                /\ ds[1].platform # ds[2].platform
                /\ Cardinality(Matched(ds[1])) = 1
                /\ Cardinality(Matched(ds[2])) = 1
                /\ Matched(ds[1]) # Matched(ds[2]) ) =>
                 /\ Len(ch) = 2
                 /\ EntryOf(ch[1]) < EntryOf(ch[2])

\* C11 witness: one descriptor of platform 0 whose bitmap has the bits of
\* Linux and MacOS gave the single choice 'Linux'.
C11_Witness ==
    /\ IsMultiplatform
    /\ Settable
    /\ Len(Descriptors) = 1
    /\ Matched(Descriptors[1]) = {1, 2}
    /\ call.result.choices = <<[value |-> Descriptors[1].platform, name |-> <<"Linux">>]>>
    /\ call.result.validator = "_ChoicesV"

\* C11 witness of two choices: a descriptor of platform 0 for MacOS and one
\* of platform 1 for Linux gave Linux, then MacOS.
C11_WitnessTwo ==
    /\ IsMultiplatform
    /\ Settable
    /\ Len(Descriptors) = 2
    /\ call.result.choices = <<[value |-> 1, name |-> <<"Linux">>],
                               [value |-> 0, name |-> <<"MacOS">>]>>

\* The text of the versions the formatting is explored on.
Rendered(version) ==
    CASE version = 0 -> <<>>
      [] version = 1 -> <<"0", ".", "1">>
      [] version = 256 -> <<"1">>
      [] version = 2560 -> <<"1", "0">>
      [] version = 2575 -> <<"1", "0", ".", "1", "5">>
      [] version = 65535 -> <<"2", "5", "5", ".", "2", "5", "5">>

IsStrOsVersions == call.op = "_str_os_versions"

\* C15 as stated: the suffix is empty when low and high are both zero;
\* otherwise it holds the versions written as 'major.minor', 'major' or
\* nothing, and the '-' that joins them only when both are nonzero.
C15_JoinOnlyWhenBoth ==
    IsStrOsVersions =>
        LET low == call.arg[1]
            high == call.arg[2]
        IN
        /\ (low = 0 /\ high = 0) => call.result = <<>>
        /\ (low # 0 /\ high # 0) =>
              call.result = <<" ">> \o Rendered(low) \o <<"-">> \o Rendered(high)
        /\ (\E i \in 1..Len(call.result) : call.result[i] = "-") => (low # 0 /\ high # 0)

\* C15 as amended: the suffix is empty when low and high are both zero;
\* otherwise it is a space, low, '-' and high, each version written as
\* 'major.minor' when its minor byte is nonzero, as 'major' when only its
\* major byte is, and as nothing when it is zero: the '-' is there as soon
\* as one of the two is nonzero.
C15_JoinUnlessBothZero ==
    IsStrOsVersions =>
        LET low == call.arg[1]
            high == call.arg[2]
        IN call.result =
              IF low = 0 /\ high = 0 THEN <<>>
              ELSE <<" ">> \o Rendered(low) \o <<"-">> \o Rendered(high)

\* C15 witness: low 10.0 and no high version gave ' 10-'.
C15_Witness ==
    /\ IsStrOsVersions
    /\ call.arg = <<2560, 0>>
    /\ call.result = <<" ", "1", "0", "-">>

\* C12: for the record (mode, threshold) the device returns, the smart-shift
\* reader presents one byte: 0 when mode is 1, else the smaller of the raw
\* threshold and 50; the byte always lies in 0..50.
C12_SmartShiftReadMapping ==
    call.op = "_SmartShiftRW.read" =>
        LET mode == call.arg[1]
            raw == call.arg[2]
        IN
        /\ Len(call.result) = 1
        /\ call.result[1] \in 0..50
        /\ mode = 1 => call.result[1] = 0
        /\ (mode # 1 /\ raw <= 50) => call.result[1] = raw
        /\ (mode # 1 /\ raw > 50) => call.result[1] = 50

\* C12 witness: the record (2, 255) the writer leaves for the maximum was
\* read as 50.
C12_Witness ==
    /\ call.op = "_SmartShiftRW.read"
    /\ call.arg = <<2, 255>>
    /\ call.result = <<50>>

\* C12 witness of freespin: the record (1, 200) was read as 0.
C12_WitnessFreespin ==
    /\ call.op = "_SmartShiftRW.read"
    /\ call.arg = <<1, 200>>
    /\ call.result = <<0>>

\* The places of the step words in a DPI list.
Steps(list) == {k \in 1..Len(list) : list[k] \div 8192 = 7}

\* C13: when the DPI list (the words before the first zero) holds a step
\* word and is not one literal, the step, one literal, the DPI callback
\* raises.
C13_StepFailsLoudly ==
    (call.op = "_feature_adjustable_dpi_callback" /\ call.arg # <<>>) =>
        LET list == BeforeZero(DpiVals) IN
        (Steps(list) # {} /\ ~(Len(list) = 3 /\ Steps(list) = {2})) =>
            /\ call.result.exc # None
            /\ call.result.validator = None
            /\ call.result.choices = <<>>

\* The bits set in a byte.
Bits(mask) == {i \in 0..7 : (mask \div (2 ^ i)) % 2 = 1}

\* C14: the options of the disable-keys callback are the keys of the bits
\* set in the mask, one for each set bit and in the order of the bits; the
\* options of the gestures callback are the gestures the device marks as
\* can-be-enabled or default-enabled, in the device's order; a callback
\* without options gives no validator.
C14_OnlySupportedFlags ==
    /\ call.op = "_feature_disable_keyboard_keys_callback" =>
          LET mask == call.arg[1]
              opts == call.result.options
          IN
          /\ Len(opts) = Cardinality(Bits(mask))
          /\ \A k \in 1..Len(opts) :
                opts[k] # NoKey => \E i \in Bits(mask) : opts[k].value = 2 ^ i
          /\ \A i \in Bits(mask) :
                DISABLE(2 ^ i) # NoKey => \E k \in 1..Len(opts) : opts[k] = DISABLE(2 ^ i)
          /\ \A j, k \in 1..Len(opts) :
                (j < k /\ opts[j] # NoKey /\ opts[k] # NoKey) => opts[j].value < opts[k].value
          /\ call.result.validator = IF mask = 0 THEN None ELSE "_BitFieldV"
    /\ call.op = "_feature_gesture2_gestures_callback" =>
          LET gestures == call.arg
              opts == call.result.options
              marked == {k \in 1..Len(gestures) :
                            gestures[k].can_be_enabled \/ gestures[k].default_enabled}
          IN
          /\ Len(opts) = Cardinality(marked)
          /\ \A k \in 1..Len(opts) : opts[k].can_be_enabled \/ opts[k].default_enabled
          /\ \A k \in marked : \E j \in 1..Len(opts) : opts[j] = gestures[k]
          /\ \A j, k \in 1..Len(opts) : j < k => opts[j].id < opts[k].id
          /\ call.result.validator = IF marked = {} THEN None ELSE "_BitFieldOMV"

\* C14 witness: the mask 5 gave the keys of bits 0 and 2 and no other.
C14_Witness ==
    /\ call.op = "_feature_disable_keyboard_keys_callback"
    /\ call.arg = <<5>>
    /\ call.result.options = <<[value |-> 1, name |-> "Caps Lock"],
                               [value |-> 4, name |-> "Scroll Lock"]>>
    /\ call.result.validator = "_BitFieldV"

\* C14 witness of the gestures: of three gestures the second has neither
\* mark; the first and the third were offered.
C14_WitnessGestures ==
    /\ call.op = "_feature_gesture2_gestures_callback"
    /\ Len(call.arg) = 3
    /\ ~call.arg[2].can_be_enabled /\ ~call.arg[2].default_enabled
    /\ Len(call.result.options) = 2
    /\ call.result.options[1].id = 1
    /\ call.result.options[2].id = 3

\* The text of the host numbers.
Numbered(k) ==
    CASE k = 1 -> <<"1">> [] k = 2 -> <<"2">> [] k = 3 -> <<"3">>
      [] k = 4 -> <<"4">> [] k = 5 -> <<"5">>

\* C16: for the reply (n, c) the change-host callback gives one choice for
\* every host 0..n-1, in order: '<host+1>:<name>' when the host has a
\* non-empty name and '<host+1>' otherwise.  The name of a host is the one
\* stored for it, except that the current host, when it has no stored name
\* or an empty one, has the short name of the machine.  n = 0 gives no
\* validator.
C16_ChangeHostNaming ==
    (call.op = "_feature_change_host_callback") =>
        LET n == call.arg[1][1]
            c == call.arg[1][2]
            stored == IF call.arg[2].none THEN <<>> ELSE call.arg[2].names
            name(h) == IF h \in DOMAIN stored /\ stored[h][2] # <<>> THEN stored[h][2]
                       ELSE IF h = c THEN <<"pc">>
                       ELSE <<>>
            ch == call.result.choices
        IN
        /\ call.result.exc = None
        /\ Len(ch) = n
        /\ \A h \in 0..(n - 1) :
              /\ ch[h + 1].value = h
              /\ ch[h + 1].name = IF name(h) # <<>>
                                  THEN Numbered(h + 1) \o <<":">> \o name(h)
                                  ELSE Numbered(h + 1)
        /\ call.result.validator = IF n = 0 THEN None ELSE "_ChoicesV"

\* C16 witness: three hosts, the second the current one; 'alpha' is stored
\* for the first and an empty name for the second; the machine is
\* pc.example.org.
C16_Witness ==
    /\ call.op = "_feature_change_host_callback"
    /\ call.arg[1] = <<3, 1>>
    /\ call.arg[3] = <<"pc", ".", "example", ".", "org">>
    /\ ~call.arg[2].none
    /\ DOMAIN call.arg[2].names = {0, 1}
    /\ call.result.choices = <<[value |-> 0, name |-> <<"1", ":", "alpha">>],
                               [value |-> 1, name |-> <<"2", ":", "pc">>],
                               [value |-> 2, name |-> <<"3">>]>>

====
